---- MODULE Spec2Model ----
(***************************************************************************)
(* Model of the big-endian bit reader of src/read.rs (BitReaderBE).        *)
(* The reader owns a byte source (`reader`) and a FIFO of single bits      *)
(* (`buffer`).  Every public operation of the BitRead trait is one action. *)
(***************************************************************************)
EXTENDS Integers, Sequences, FiniteSets, TLC

(* ---------------------------------------------------------------------- *)
(* Bounds of the model                                                     *)
(* ---------------------------------------------------------------------- *)
\* longest byte source considered
MaxBytes == 4
\* longest destination slice handed to read_bytes
MaxBufLen == 2

\* widest read of the trait: the result type is u32 / i32
MaxBits == 32

\* bit widths the calls are made with: around the byte, half-word and word edges
Widths == {1, 2, 3, 4, 5, 7, 8, 9, 12, 16, 17, 24, 31, MaxBits}

\* byte values of the mixed sources: the pattern 10110100 and its complement
ByteVals == {180, 75}

\* content of a destination slice before read_bytes stores into it
Unwritten == -1

Pow2(n) == 2 ^ n

\* all sequences over S of length 0..n
RECURSIVE SeqsUpTo(_, _)
SeqsUpTo(S, n) ==
    IF n = 0 THEN {<<>>}
    ELSE LET shorter == SeqsUpTo(S, n - 1)
         IN  shorter \cup {Append(q, x) : q \in {p \in shorter : Len(p) = n - 1}, x \in S}

\* the byte sources considered: every sequence of pattern bytes, and the
\* sources of all-ones bytes and of all-zeros bytes
Sources ==
    SeqsUpTo(ByteVals, MaxBytes) \cup SeqsUpTo({255}, MaxBytes) \cup SeqsUpTo({0}, MaxBytes)

(* ---------------------------------------------------------------------- *)
(* State                                                                   *)
(* ---------------------------------------------------------------------- *)
VARIABLES
    reader,     \* BitReaderBE.reader: the bytes the source has not handed out yet
    buffer,     \* BitReaderBE.buffer: VecDeque of bit values, front first
    op,         \* the operation that ran last
    arg,        \* its bits argument, or the length of its destination slice
    res,        \* its outcome: [kind: "ok" | "err" | "panic" | "none", val]
    dest,       \* the destination slice as read_bytes left it
    pre,        \* buffer and reader as they were when that operation started
    bitsSince,  \* bits consumed by the calls since new() / byte_align(), modulo 8
    allOk,      \* no call failed since new() / byte_align()
    ahead,      \* 8 * (bytes taken from the source) - (bits the successful calls
                \* consumed), both counted since new() / byte_align()
    last,       \* the byte most recently taken from the source as <<byte>>, <<>> before the first
    frame       \* the read_unary call under way, pass by pass: [pc, stop, acc]

vars == <<reader, buffer, op, arg, res, dest, pre, bitsSince, allOk, ahead, last,
          frame>>

\* the two fields of the struct as one value
Self == [buffer |-> buffer, reader |-> reader]

Ok(v)  == [kind |-> "ok", val |-> v]
Err    == [kind |-> "err", val |-> 0]
Panic  == [kind |-> "panic", val |-> 0]
None   == [kind |-> "none", val |-> 0]

(* ---------------------------------------------------------------------- *)
(* Machine arithmetic                                                      *)
(* ---------------------------------------------------------------------- *)
\* A u32 is kept as its two 16-bit halves, value hi * 65536 + lo, so that
\* every 32-bit pattern is representable.
Half == 65536

U32(h, l) == [hi |-> h, lo |-> l]

\* the literal 0 of `let mut acc = 0`
Zero32 == U32(0, 0)

MaxI32 == 2147483647
MinI32 == -2147483647 - 1

\* x >> n on a byte
Shr(x, n) == x \div Pow2(n)

\* x & 1
And1(x) == x % 2

\* fault: the accumulator of read is a u16, the shift drops what leaves 16 bits
Shl1U16(x) == U32(0, (x.lo * 2) % Half)

\* (x << 1) on a u32: the top bit falls off
Shl1U32(x) == U32((x.hi * 2 + x.lo \div 32768) % Half, (x.lo * 2) % Half)

\* x | bit on a u32, for a bit value 0 or 1
Or1(x, bit) == U32(x.hi, IF x.lo % 2 = 1 THEN x.lo ELSE x.lo + bit)

\* (u & (1 << p)) != 0 on a u32, p in 0..31
TestBit(u, p) == IF p < 16 THEN (u.lo \div Pow2(p)) % 2 = 1
                 ELSE (u.hi \div Pow2(p - 16)) % 2 = 1

\* u as i32
AsI32(u) == IF u.hi >= 32768 THEN (u.hi - Half) * Half + u.lo ELSE u.hi * Half + u.lo

\* x as u8, x a u32
AsU8(x) == x.lo % 256

\* 1 << n on an i32 with the shift amount already in 0..31
Shl1I32(n) == IF n = 31 THEN MinI32 ELSE Pow2(n)

\* does a - b leave the i32 range
SubOverflows(a, b) == IF b > 0 THEN a < MinI32 + b ELSE a > MaxI32 + b

\* a - b wrapped into i32 (two's complement)
WrappingSub(a, b) ==
    IF ~SubOverflows(a, b) THEN a - b
    ELSE IF b > 0 THEN ((((a + MaxI32) + 1) - b) + MaxI32) + 1    \* a - b + 2^32
    ELSE ((((a - MaxI32) - 1) - b) - MaxI32) - 1                  \* a - b - 2^32

\* does -a leave the i32 range
NegOverflows(a) == a = MinI32

\* -a wrapped into i32
WrappingNeg(a) == IF a = MinI32 THEN MinI32 ELSE -a

(* ---------------------------------------------------------------------- *)
(* The byte source                                                         *)
(* ---------------------------------------------------------------------- *)
\* io::Read::read_exact: fill buf completely from the source or fail.  On
\* failure buf is left as it was; how many of the too-few remaining bytes the
\* source drops is not fixed by its contract (`drop`).
read_exact(src, buf, drop) ==
    IF Len(src) >= Len(buf)
    THEN [ok |-> TRUE,
          buf |-> SubSeq(src, 1, Len(buf)),
          reader |-> SubSeq(src, Len(buf) + 1, Len(src))]
    ELSE [ok |-> FALSE,
          buf |-> buf,
          reader |-> SubSeq(src, drop + 1, Len(src))]

(* ---------------------------------------------------------------------- *)
(* BitReaderBE                                                             *)
(* ---------------------------------------------------------------------- *)
new(src) == [buffer |-> <<>>, reader |-> src]

\* fault: the bits of the byte pushed least significant first
push_bits_lsb_first(byte) ==
    << And1(Shr(byte, 0)), And1(Shr(byte, 1)), And1(Shr(byte, 2)), And1(Shr(byte, 3)),
       And1(Shr(byte, 4)), And1(Shr(byte, 5)), And1(Shr(byte, 6)), And1(Shr(byte, 7)) >>

\* fault: the push of bit 0 forgotten
push_bits_drop_last(byte) ==
    << And1(Shr(byte, 7)), And1(Shr(byte, 6)), And1(Shr(byte, 5)), And1(Shr(byte, 4)),
       And1(Shr(byte, 3)), And1(Shr(byte, 2)), And1(Shr(byte, 1)) >>

\* the eight push_back calls of next_bit
push_bits(byte) ==
    << And1(Shr(byte, 7)), And1(Shr(byte, 6)), And1(Shr(byte, 5)), And1(Shr(byte, 4)),
       And1(Shr(byte, 3)), And1(Shr(byte, 2)), And1(Shr(byte, 1)), And1(Shr(byte, 0)) >>

\* fault: the zeroed one-byte buf is pushed before the error of read_exact is
\* returned, so a failed fetch leaves eight bits behind
next_bit_dirty_fail(s) ==
    IF Len(s.buffer) = 0
    THEN LET r == read_exact(s.reader, <<0>>, 0)
             filled == s.buffer \o push_bits(r.buf[1])
         IN  IF ~r.ok
             THEN [ok |-> FALSE, val |-> 0, st |-> [buffer |-> filled, reader |-> r.reader]]
             ELSE [ok |-> TRUE, val |-> Head(filled),
                   st |-> [buffer |-> Tail(filled), reader |-> r.reader]]
    ELSE [ok |-> TRUE, val |-> Head(s.buffer),
          st |-> [buffer |-> Tail(s.buffer), reader |-> s.reader]]

\* fault: the error of read_exact is ignored, an exhausted source reads as zeros
next_bit_zero_at_eof(s) ==
    IF Len(s.buffer) = 0
    THEN LET r == read_exact(s.reader, <<0>>, 0)
             filled == s.buffer \o push_bits(r.buf[1])
         IN  [ok |-> TRUE, val |-> Head(filled),
              st |-> [buffer |-> Tail(filled), reader |-> r.reader]]
    ELSE [ok |-> TRUE, val |-> Head(s.buffer),
          st |-> [buffer |-> Tail(s.buffer), reader |-> s.reader]]

\* fault: the refill test is len() <= 1, so a byte is fetched while a bit is
\* still buffered
next_bit_refill_early(s) ==
    IF Len(s.buffer) <= 1
    THEN LET r == read_exact(s.reader, <<0>>, 0)
         IN  IF ~r.ok
             THEN [ok |-> FALSE, val |-> 0, st |-> [buffer |-> s.buffer, reader |-> r.reader]]
             ELSE LET filled == s.buffer \o push_bits(r.buf[1])
                  IN  [ok |-> TRUE, val |-> Head(filled),
                       st |-> [buffer |-> Tail(filled), reader |-> r.reader]]
    ELSE [ok |-> TRUE, val |-> Head(s.buffer),
          st |-> [buffer |-> Tail(s.buffer), reader |-> s.reader]]

next_bit(s) ==
    IF Len(s.buffer) = 0
    THEN LET r == read_exact(s.reader, <<0>>, 0)
         IN  IF ~r.ok
             THEN [ok |-> FALSE, val |-> 0, st |-> [buffer |-> s.buffer, reader |-> r.reader]]
             ELSE LET filled == s.buffer \o push_bits(r.buf[1])
                  IN  [ok |-> TRUE, val |-> Head(filled),
                       st |-> [buffer |-> Tail(filled), reader |-> r.reader]]
    ELSE [ok |-> TRUE, val |-> Head(s.buffer),
          st |-> [buffer |-> Tail(s.buffer), reader |-> s.reader]]

\* fault: the bit is or-ed in before the shift, acc = (acc | bit) << 1
read_step_or_then_shift(l) ==
    LET nb == next_bit(l.st)
    IN  IF ~nb.ok
        THEN [st |-> nb.st, acc |-> l.acc, ok |-> FALSE]
        ELSE [st |-> nb.st, acc |-> Shl1U32(Or1(l.acc, nb.val)), ok |-> TRUE]

\* one pass of the while loop of read over its locals l = [st, acc, ok]
read_step(l) ==
    LET nb == next_bit(l.st)
    IN  IF ~nb.ok
        THEN [st |-> nb.st, acc |-> l.acc, ok |-> FALSE]
        ELSE [st |-> nb.st, acc |-> Or1(Shl1U32(l.acc), nb.val), ok |-> TRUE]

\* n further passes of the loop, none once the ? has returned the error
\* (ok = FALSE); split in halves to keep the evaluation shallow
RECURSIVE read_loop(_, _)
read_loop(l, n) ==
    IF ~l.ok \/ n = 0 THEN l
    ELSE IF n = 1 THEN read_step(l)
    ELSE read_loop(read_loop(l, n \div 2), n - n \div 2)

\* fault: a failed read puts back the bits and bytes it had taken
read_restoring(s, bits) ==
    LET l == read_loop([st |-> s, acc |-> Zero32, ok |-> TRUE], bits)
    IN  [ok |-> l.ok, val |-> IF l.ok THEN l.acc ELSE Zero32,
         st |-> IF l.ok THEN l.st ELSE s]

\* fault: a read that empties the buffer fetches the next byte at once
read_prefetch(s, bits) ==
    LET l == read_loop([st |-> s, acc |-> Zero32, ok |-> TRUE], bits)
        eager == IF l.ok /\ Len(l.st.buffer) = 0 /\ Len(l.st.reader) > 0
                 THEN [buffer |-> push_bits(l.st.reader[1]), reader |-> Tail(l.st.reader)]
                 ELSE l.st
    IN  [ok |-> l.ok, val |-> IF l.ok THEN l.acc ELSE Zero32, st |-> eager]

read(s, bits) ==
    LET l == read_loop([st |-> s, acc |-> Zero32, ok |-> TRUE], bits)
    IN  [ok |-> l.ok, val |-> IF l.ok THEN l.acc ELSE Zero32, st |-> l.st]

\* the closure of read_signed applied to the value u that read returned;
\* checked is the build's overflow-checks setting
sign_convert(u, bits, checked) ==
    IF ~TestBit(u, bits - 1)
    THEN [panic |-> FALSE, val |-> AsI32(u)]
    ELSE IF bits >= 32 /\ checked
    THEN [panic |-> TRUE, val |-> 0]                      \* shift left with overflow
    ELSE LET one == Shl1I32(bits % 32)                    \* 1 << bits, amount masked
         IN  IF SubOverflows(one, AsI32(u)) /\ checked
             THEN [panic |-> TRUE, val |-> 0]             \* subtract with overflow
             ELSE LET diff == WrappingSub(one, AsI32(u))
                  IN  IF NegOverflows(diff) /\ checked
                      THEN [panic |-> TRUE, val |-> 0]    \* negate with overflow
                      ELSE [panic |-> FALSE, val |-> WrappingNeg(diff)]

read_signed(s, bits, checked) ==
    LET r == read(s, bits)
    IN  IF ~r.ok
        THEN [ok |-> FALSE, panic |-> FALSE, val |-> 0, st |-> r.st]
        ELSE LET c == sign_convert(r.val, bits, checked)
             IN  [ok |-> ~c.panic, panic |-> c.panic, val |-> c.val, st |-> r.st]

\* fault: a skip of whole bytes from a byte-aligned state moves the source
\* ahead without reading, so it never meets the end of the source
skip_seek(s, bits) ==
    IF Len(s.buffer) = 0 /\ bits % 8 = 0
    THEN [ok |-> TRUE,
          st |-> [buffer |-> s.buffer,
                  reader |-> SubSeq(s.reader, bits \div 8 + 1, Len(s.reader))]]
    ELSE LET r == read(s, bits)
         IN  [ok |-> r.ok, st |-> r.st]

skip(s, bits) ==
    LET r == read(s, bits)
    IN  [ok |-> r.ok, st |-> r.st]

byte_aligned(s) == Len(s.buffer) = 0

\* fault: aligning reads on to the next byte boundary even when already on one
byte_align_reads(s) ==
    IF Len(s.buffer) = 0
    THEN [buffer |-> <<>>, reader |-> SubSeq(s.reader, 2, Len(s.reader))]
    ELSE [buffer |-> <<>>, reader |-> s.reader]

byte_align(s) == [buffer |-> <<>>, reader |-> s.reader]

\* the for loop of the unaligned branch of read_bytes, i the next index
RECURSIVE read_bytes_loop(_, _, _)
read_bytes_loop(s, buf, i) ==
    IF i > Len(buf)
    THEN [ok |-> TRUE, buf |-> buf, st |-> s]
    ELSE LET r == read(s, 8)
         IN  IF ~r.ok
             THEN [ok |-> FALSE, buf |-> buf, st |-> r.st]
             ELSE read_bytes_loop(r.st, [buf EXCEPT ![i] = AsU8(r.val)], i + 1)

\* fault: the alignment test missing, the bytes always come from read_exact
read_bytes_always_fast(s, buf, drop) ==
    LET r == read_exact(s.reader, buf, drop)
    IN  [ok |-> r.ok, buf |-> r.buf, st |-> [buffer |-> s.buffer, reader |-> r.reader]]

\* fault: the aligned fast path missing, every byte goes through read(8)
read_bytes_always_slow(s, buf, drop) == read_bytes_loop(s, buf, 1)

read_bytes(s, buf, drop) ==
    IF byte_aligned(s)
    THEN LET r == read_exact(s.reader, buf, drop)
         IN  [ok |-> r.ok, buf |-> r.buf, st |-> [buffer |-> s.buffer, reader |-> r.reader]]
    ELSE read_bytes_loop(s, buf, 1)

\* fault: the error of read(1) is swallowed and the pass taken again
unary_step_retries(l, stop) ==
    LET r == read(l.st, 1)
    IN  IF ~r.ok
        THEN [st |-> r.st, acc |-> l.acc, ok |-> TRUE, done |-> FALSE]
        ELSE IF r.val # U32(0, stop)
        THEN [st |-> r.st, acc |-> l.acc + 1, ok |-> TRUE, done |-> FALSE]
        ELSE [st |-> r.st, acc |-> l.acc, ok |-> TRUE, done |-> TRUE]

\* fault: the stop bit is counted too
unary_step_counts_stop(l, stop) ==
    LET r == read(l.st, 1)
    IN  IF ~r.ok
        THEN [st |-> r.st, acc |-> l.acc, ok |-> FALSE, done |-> TRUE]
        ELSE IF r.val # U32(0, stop)
        THEN [st |-> r.st, acc |-> l.acc + 1, ok |-> TRUE, done |-> FALSE]
        ELSE [st |-> r.st, acc |-> l.acc + 1, ok |-> TRUE, done |-> TRUE]

\* one pass of the while loop of read_unary0 / read_unary1 over its locals
\* l = [st, acc, ok, done]; stop is the stop bit
unary_step(l, stop) ==
    LET r == read(l.st, 1)
    IN  IF ~r.ok
        THEN [st |-> r.st, acc |-> l.acc, ok |-> FALSE, done |-> TRUE]
        ELSE IF r.val # U32(0, stop)
        THEN [st |-> r.st, acc |-> l.acc + 1, ok |-> TRUE, done |-> FALSE]
        ELSE [st |-> r.st, acc |-> l.acc, ok |-> TRUE, done |-> TRUE]

\* up to n further passes of the loop, none once the call has returned
\* (done = TRUE); split in halves to keep the evaluation shallow
RECURSIVE unary_loop(_, _, _)
unary_loop(l, stop, n) ==
    IF l.done \/ n = 0 THEN l
    ELSE IF n = 1 THEN unary_step(l, stop)
    ELSE unary_loop(unary_loop(l, stop, n \div 2), stop, n - n \div 2)

\* the loop has returned at the latest after one pass per bit the reader can
\* still deliver plus the pass that meets the exhausted source
unary(s, stop) ==
    LET l == unary_loop([st |-> s, acc |-> 0, ok |-> TRUE, done |-> FALSE], stop,
                        Len(s.buffer) + 8 * Len(s.reader) + 1)
    IN  [ok |-> l.ok, val |-> IF l.ok THEN l.acc ELSE 0, st |-> l.st]

read_unary0(s) == unary(s, 0)

read_unary1(s) == unary(s, 1)

(* ---------------------------------------------------------------------- *)
(* Actions: one per public operation                                       *)
(* ---------------------------------------------------------------------- *)
Running == res.kind # "panic"

\* no read_unary call is inside its loop
NoFrame == [pc |-> "idle", stop |-> 0, acc |-> 0]

\* the number of bytes a call took from the source between states s and t
PulledBy(s, t) == Len(s.reader) - Len(t.reader)

\* the number of bits a step took off the stream between states s and t
TakenBy(s, t) ==
    (Len(s.buffer) + 8 * Len(s.reader)) - (Len(t.buffer) + 8 * Len(t.reader))

\* the last of those bytes, or prev when the call took none
LastPulled(s, t, prev) ==
    IF PulledBy(s, t) > 0 THEN <<s.reader[PulledBy(s, t)]>> ELSE prev

Init ==
    /\ \E src \in Sources :
          /\ reader = new(src).reader
          /\ buffer = new(src).buffer
    /\ op = "new"
    /\ arg = 0
    /\ res = None
    /\ dest = <<>>
    /\ pre = [buffer |-> buffer, reader |-> reader]
    /\ bitsSince = 0
    /\ allOk = TRUE
    /\ ahead = 0
    /\ last = <<>>
    /\ frame = NoFrame

Read(bits) ==
    /\ Running
    /\ frame = NoFrame
    /\ UNCHANGED frame
    /\ pre' = Self
    /\ \E r \in {read(Self, bits)} :
           /\ buffer' = r.st.buffer
           /\ reader' = r.st.reader
           /\ res' = IF r.ok THEN Ok(r.val) ELSE Err
           /\ bitsSince' = IF r.ok THEN (bitsSince + bits) % 8 ELSE bitsSince
           /\ ahead' = ahead + 8 * PulledBy(Self, r.st) - (IF r.ok THEN bits ELSE 0)
           /\ last' = LastPulled(Self, r.st, last)
           /\ allOk' = (allOk /\ r.ok)
    /\ op' = "read"
    /\ arg' = bits
    /\ dest' = <<>>

ReadSigned(bits, checked) ==
    /\ Running
    /\ frame = NoFrame
    /\ UNCHANGED frame
    /\ pre' = Self
    /\ \E r \in {read_signed(Self, bits, checked)} :
           /\ buffer' = r.st.buffer
           /\ reader' = r.st.reader
           /\ res' = IF r.panic THEN Panic ELSE IF r.ok THEN Ok(r.val) ELSE Err
           /\ bitsSince' = IF r.ok \/ r.panic THEN (bitsSince + bits) % 8 ELSE bitsSince
           /\ ahead' = ahead + 8 * PulledBy(Self, r.st) - (IF r.ok \/ r.panic THEN bits ELSE 0)
           /\ last' = LastPulled(Self, r.st, last)
           /\ allOk' = (allOk /\ r.ok)
    /\ op' = "read_signed"
    /\ arg' = bits
    /\ dest' = <<>>

Skip(bits) ==
    /\ Running
    /\ frame = NoFrame
    /\ UNCHANGED frame
    /\ pre' = Self
    /\ \E r \in {skip(Self, bits)} :
           /\ buffer' = r.st.buffer
           /\ reader' = r.st.reader
           /\ res' = IF r.ok THEN Ok(0) ELSE Err
           /\ bitsSince' = IF r.ok THEN (bitsSince + bits) % 8 ELSE bitsSince
           /\ ahead' = ahead + 8 * PulledBy(Self, r.st) - (IF r.ok THEN bits ELSE 0)
           /\ last' = LastPulled(Self, r.st, last)
           /\ allOk' = (allOk /\ r.ok)
    /\ op' = "skip"
    /\ arg' = bits
    /\ dest' = <<>>

ReadBytes(n, drop) ==
    /\ Running
    /\ frame = NoFrame
    /\ UNCHANGED frame
    /\ pre' = Self
    /\ \E r \in {read_bytes(Self, [i \in 1..n |-> Unwritten], drop)} :
           /\ buffer' = r.st.buffer
           /\ reader' = r.st.reader
           /\ res' = IF r.ok THEN Ok(0) ELSE Err
           /\ dest' = r.buf
           /\ bitsSince' = IF r.ok THEN (bitsSince + 8 * n) % 8 ELSE bitsSince
           /\ ahead' = ahead + 8 * PulledBy(Self, r.st) - (IF r.ok THEN (8 * n) ELSE 0)
           /\ last' = LastPulled(Self, r.st, last)
           /\ allOk' = (allOk /\ r.ok)
    /\ op' = "read_bytes"
    /\ arg' = n

ReadUnary0 ==
    /\ Running
    /\ frame = NoFrame
    /\ UNCHANGED frame
    /\ pre' = Self
    /\ \E r \in {read_unary0(Self)} :
           /\ buffer' = r.st.buffer
           /\ reader' = r.st.reader
           /\ res' = IF r.ok THEN Ok(r.val) ELSE Err
           /\ bitsSince' = IF r.ok THEN (bitsSince + r.val + 1) % 8 ELSE bitsSince
           /\ ahead' = ahead + 8 * PulledBy(Self, r.st) - (IF r.ok THEN (r.val + 1) ELSE 0)
           /\ last' = LastPulled(Self, r.st, last)
           /\ allOk' = (allOk /\ r.ok)
    /\ op' = "read_unary0"
    /\ arg' = 0
    /\ dest' = <<>>

ReadUnary1 ==
    /\ Running
    /\ frame = NoFrame
    /\ UNCHANGED frame
    /\ pre' = Self
    /\ \E r \in {read_unary1(Self)} :
           /\ buffer' = r.st.buffer
           /\ reader' = r.st.reader
           /\ res' = IF r.ok THEN Ok(r.val) ELSE Err
           /\ bitsSince' = IF r.ok THEN (bitsSince + r.val + 1) % 8 ELSE bitsSince
           /\ ahead' = ahead + 8 * PulledBy(Self, r.st) - (IF r.ok THEN (r.val + 1) ELSE 0)
           /\ last' = LastPulled(Self, r.st, last)
           /\ allOk' = (allOk /\ r.ok)
    /\ op' = "read_unary1"
    /\ arg' = 0
    /\ dest' = <<>>

ByteAligned ==
    /\ Running
    /\ frame = NoFrame
    /\ UNCHANGED frame
    /\ pre' = Self
    /\ op' = "byte_aligned"
    /\ arg' = 0
    /\ res' = Ok(IF byte_aligned(Self) THEN 1 ELSE 0)
    /\ dest' = <<>>
    /\ UNCHANGED <<reader, buffer, bitsSince, allOk, ahead, last>>

ByteAlign ==
    /\ Running
    /\ frame = NoFrame
    /\ UNCHANGED frame
    /\ pre' = Self
    /\ buffer' = byte_align(Self).buffer
    /\ reader' = byte_align(Self).reader
    /\ op' = "byte_align"
    /\ arg' = 0
    /\ res' = None
    /\ dest' = <<>>
    /\ bitsSince' = 0
    /\ allOk' = TRUE
    /\ ahead' = 0
    /\ last' = LastPulled(Self, byte_align(Self), last)

Next ==
    \/ \E bits \in Widths : Read(bits)
    \/ \E bits \in Widths, checked \in BOOLEAN : ReadSigned(bits, checked)
    \/ \E bits \in Widths : Skip(bits)
    \/ \E n \in 0..MaxBufLen, drop \in 0..MaxBytes : drop <= Len(reader) /\ ReadBytes(n, drop)
    \/ ReadUnary0
    \/ ReadUnary1
    \/ ByteAligned
    \/ ByteAlign

Spec == Init /\ [][Next]_vars

(* ---------------------------------------------------------------------- *)
(* read_unary0 / read_unary1 pass by pass                                   *)
(* ---------------------------------------------------------------------- *)
\* the widths of the reads that move the cursor between unary calls
UnaryWidths == {1, 3, 8}

\* entry of read_unary0 (stop = 0) or read_unary1 (stop = 1): let mut acc = 0
UnaryCall(stop) ==
    /\ Running
    /\ frame = NoFrame
    /\ frame' = [pc |-> "loop", stop |-> stop, acc |-> 0]
    /\ pre' = Self
    /\ op' = IF stop = 0 THEN "read_unary0" ELSE "read_unary1"
    /\ arg' = 0
    /\ res' = None
    /\ dest' = <<>>
    /\ UNCHANGED <<reader, buffer, bitsSince, allOk, ahead, last>>

\* one pass of the while loop: read(1)?, then acc += 1 or the return of acc
UnaryPass ==
    /\ frame.pc = "loop"
    /\ \E l \in {unary_step([st |-> Self, acc |-> frame.acc, ok |-> TRUE, done |-> FALSE],
                             frame.stop)} :
           /\ buffer' = l.st.buffer
           /\ reader' = l.st.reader
           /\ frame' = IF l.done THEN NoFrame ELSE [frame EXCEPT !.acc = l.acc]
           /\ res' = IF ~l.done THEN res ELSE IF l.ok THEN Ok(l.acc) ELSE Err
           /\ bitsSince' = (bitsSince + TakenBy(Self, l.st)) % 8
           /\ ahead' = ahead + 8 * PulledBy(Self, l.st) - TakenBy(Self, l.st)
           /\ allOk' = (allOk /\ l.ok)
           /\ last' = LastPulled(Self, l.st, last)
    /\ UNCHANGED <<op, arg, dest, pre>>

NextUnary ==
    \/ \E stop \in {0, 1} : UnaryCall(stop)
    \/ UnaryPass
    \/ \E bits \in UnaryWidths : Read(bits)
    \/ ByteAlign

\* a call that has entered its loop keeps running: nothing else shares the
\* reader (it is borrowed mutably), so the next pass is always taken
SpecUnary == Init /\ [][NextUnary]_vars /\ WF_vars(UnaryPass)

TypeOK ==
    /\ reader \in Sources
    /\ Len(buffer) < 8
    /\ \A i \in 1..Len(buffer) : buffer[i] \in {0, 1}
    /\ res.kind \in {"ok", "err", "panic", "none"}

(* ---------------------------------------------------------------------- *)
(* The stream as a bit string                                              *)
(* ---------------------------------------------------------------------- *)
\* bit i of a byte counted from the most significant one, i in 0..7
BitOf(byte, i) == (byte \div Pow2(7 - i)) % 2

\* number of bits the reader s can still deliver
Remaining(s) == Len(s.buffer) + 8 * Len(s.reader)

\* the k-th of those bits, k in 1..Remaining(s): the buffered bits, then the
\* bytes of the source in order, each from bit 7 down to bit 0
StreamBit(s, k) ==
    IF k <= Len(s.buffer) THEN s.buffer[k]
    ELSE BitOf(s.reader[((k - Len(s.buffer) - 1) \div 8) + 1], (k - Len(s.buffer) - 1) % 8)

\* what is left of the stream at the cursor of s
StreamOf(s) == [k \in 1..Remaining(s) |-> StreamBit(s, k)]

\* the stream with its first n bits consumed
Advance(q, n) == SubSeq(q, n + 1, Len(q))

\* the next n bits of s
NextBits(s, n) == SubSeq(StreamOf(s), 1, n)

\* the number written with the binary digits q[from..to], at most 31 digits
RECURSIVE Digits(_, _, _)
Digits(q, from, to) ==
    IF from > to THEN 0
    ELSE IF from = to THEN q[from]
    ELSE LET mid == (from + to) \div 2
         IN  Digits(q, from, mid) * Pow2(to - mid) + Digits(q, mid + 1, to)

\* the unsigned number written with the digits q (at most 32), as a u32
Unsigned(q) ==
    IF Len(q) <= 16 THEN U32(0, Digits(q, 1, Len(q)))
    ELSE U32(Digits(q, 1, Len(q) - 16), Digits(q, Len(q) - 15, Len(q)))

\* the two's-complement number written with the digits q (1 to 32 digits):
\* the digits after the first, less 2^(Len(q) - 1) when the first is 1
TwosComplement(q) ==
    LET rest == Digits(q, 2, Len(q))
    IN  IF q[1] = 0 THEN rest
        ELSE IF Len(q) = 32 THEN (rest - MaxI32) - 1
        ELSE rest - Pow2(Len(q) - 1)

\* length of the run of bits equal to v at the front of q
LeadingRun(q, v) ==
    CHOOSE k \in 0..Len(q) :
        /\ \A i \in 1..k : q[i] = v
        /\ (k = Len(q) \/ q[k + 1] # v)

ReadOps == {"read", "read_signed", "skip", "read_bytes", "read_unary0", "read_unary1"}

(* ---------------------------------------------------------------------- *)
(* C1                                                                      *)
(* ---------------------------------------------------------------------- *)
\* the byte 10110100 read as 1 + 1 + 1 + 1 + 4 bits
C1_Example ==
    LET r1 == read(new(<<180>>), 1)
        r2 == read(r1.st, 1)
        r3 == read(r2.st, 1)
        r4 == read(r3.st, 1)
        r5 == read(r4.st, 4)
    IN  /\ r1.ok /\ r2.ok /\ r3.ok /\ r4.ok /\ r5.ok
        /\ <<r1.val, r2.val, r3.val, r4.val>> = <<U32(0, 1), U32(0, 0), U32(0, 1), U32(0, 1)>>
        /\ r5.val = U32(0, 4)

\* read(b) applied to the state s, for every width the source can still serve
C1_EveryWidth(s) ==
    \A b \in 1..MaxBits :
        Remaining(s) >= b =>
            LET r == read(s, b)
            IN  /\ r.ok
                /\ r.val = Unsigned(NextBits(s, b))
                /\ StreamOf(r.st) = Advance(StreamOf(s), b)

\* C1: read(b) with at least b bits left returns the unsigned number whose
\* binary digits are the next b bits of the stream, most significant first,
\* and moves the cursor by exactly b bits, for the call that was made and for
\* every width 1..32 at the position reached; over the byte 10110100 four
\* read(1) give 1,0,1,1 and a following read(4) gives 4.
C1_ReadMsbFirst ==
    /\ C1_Example
    /\ (op = "read" /\ Remaining(pre) >= arg) =>
          /\ res = Ok(Unsigned(NextBits(pre, arg)))
          /\ StreamOf(Self) = Advance(StreamOf(pre), arg)
    /\ C1_EveryWidth(Self)

\* a read of 17 bits that started inside a byte and crossed two byte boundaries
C1_Witness ==
    /\ op = "read" /\ arg = 17 /\ res.kind = "ok"
    /\ Len(pre.buffer) = 3 /\ Len(buffer) = 2

(* ---------------------------------------------------------------------- *)
(* C2                                                                      *)
(* ---------------------------------------------------------------------- *)
\* C2: read_signed(b) with at least b bits left returns the next b bits read
\* as a two's-complement number (u when bit b-1 is 0, u - 2^b when it is 1),
\* for every b in 1..32, and consumes the same b bits as read(b).
C2_ReadSignedTwosComplement ==
    (op = "read_signed" /\ Remaining(pre) >= arg) =>
        /\ res = Ok(TwosComplement(NextBits(pre, arg)))
        /\ Self = read(pre, arg).st

\* C2 restricted to widths below 31, where no intermediate leaves the i32 range
C2_BelowWidth31 ==
    (op = "read_signed" /\ Remaining(pre) >= arg /\ arg < 31) =>
        /\ res = Ok(TwosComplement(NextBits(pre, arg)))
        /\ Self = read(pre, arg).st

(* ---------------------------------------------------------------------- *)
(* C3                                                                      *)
(* ---------------------------------------------------------------------- *)
\* C3: byte_aligned() is true right after construction and right after
\* byte_align(); after successful calls only, it is true exactly when the
\* bits they consumed since then add up to a multiple of 8.
C3_AlignedIffMultipleOf8 ==
    /\ op \in {"new", "byte_align"} => byte_aligned(Self)
    /\ allOk => (byte_aligned(Self) <=> bitsSince = 0)

\* successful calls, the last one a unary read that consumed the last bit of a
\* byte, after which the count is a multiple of 8 again
C3_Witness ==
    /\ allOk /\ op = "read_unary0" /\ res = Ok(0)
    /\ Len(pre.buffer) = 1 /\ Len(reader) > 0
    /\ bitsSince = 0 /\ byte_aligned(Self)

(* ---------------------------------------------------------------------- *)
(* C4                                                                      *)
(* ---------------------------------------------------------------------- *)
Failed == op \in ReadOps /\ res.kind = "err"

\* C4 as stated: a read operation that returns the I/O error leaves
\* byte_aligned() as it was before the call, from every reachable state.
C4_StatusUnchangedByFailure ==
    Failed => (byte_aligned(Self) = byte_aligned(pre))

\* C4 as amended: a read operation that starts byte-aligned and returns the
\* I/O error leaves byte_aligned() as it was before the call (true); one that
\* starts with leftover bits buffered has consumed them and ends byte-aligned.
C4_AlignedStaysAlignedOnFailure ==
    Failed =>
        /\ byte_aligned(pre) => (byte_aligned(Self) = byte_aligned(pre))
        /\ ~byte_aligned(pre) => byte_aligned(Self)

\* a failed read of 17 bits that started byte-aligned with two bytes left
C4_Witness ==
    /\ Failed /\ op = "read" /\ arg = 17
    /\ byte_aligned(pre) /\ Len(pre.reader) = 2

(* ---------------------------------------------------------------------- *)
(* C5                                                                      *)
(* ---------------------------------------------------------------------- *)
\* a call that consumes at least one bit
Consuming == op \in ReadOps /\ ~(op = "read_bytes" /\ arg = 0)

\* C5 as stated: with no bytes left in the source, every read operation
\* returns the I/O error and no value, whatever the bit buffer holds.
C5_ExhaustedSourceFails ==
    (Consuming /\ Len(pre.reader) = 0) => res = Err

\* the bits buffered in s do not satisfy the call
Insufficient(s) ==
    CASE op \in {"read", "read_signed", "skip"} -> Len(s.buffer) < arg
      [] op = "read_bytes" -> Len(s.buffer) < 8 * arg
      [] op = "read_unary0" -> \A i \in 1..Len(s.buffer) : s.buffer[i] # 0
      [] op = "read_unary1" -> \A i \in 1..Len(s.buffer) : s.buffer[i] # 1
      [] OTHER -> FALSE

\* C5 as amended: with no bytes left in the source, a read operation returns
\* the I/O error and no value whenever the bit buffer holds fewer bits than
\* the call needs (for the unary reads: no stop bit); a call that the
\* buffered bits satisfy succeeds.
C5_ExhaustedSourceFailsWhenBufferShort ==
    (Consuming /\ Len(pre.reader) = 0) =>
        /\ Insufficient(pre) => res = Err
        /\ ~Insufficient(pre) => res.kind = "ok"

\* a read of 5 bits with 3 bits buffered and nothing left in the source
C5_Witness ==
    /\ op = "read" /\ arg = 5 /\ res = Err
    /\ Len(pre.reader) = 0 /\ Len(pre.buffer) = 3

(* ---------------------------------------------------------------------- *)
(* C6                                                                      *)
(* ---------------------------------------------------------------------- *)
\* n consecutive read(8) calls from s: the values returned and the state reached
RECURSIVE Read8Calls(_, _)
Read8Calls(s, n) ==
    IF n = 0 THEN [ok |-> TRUE, vals |-> <<>>, st |-> s]
    ELSE LET before == Read8Calls(s, n - 1)
             r == read(before.st, 8)
         IN  [ok |-> before.ok /\ r.ok,
              vals |-> Append(before.vals, r.val),
              st |-> r.st]

\* the bytes as u32 values
Widened(bytes) == [i \in 1..Len(bytes) |-> U32(0, bytes[i])]

\* C6: from a byte-aligned state with at least n bytes left, read_bytes on a
\* destination of length n writes the bytes that n consecutive read(8) calls
\* return, in order, and ends in the state those calls end in: buffer empty,
\* source advanced by n bytes.
C6_ReadBytesAlignedIsRead8 ==
    (op = "read_bytes" /\ byte_aligned(pre) /\ Len(pre.reader) >= arg) =>
        /\ res.kind = "ok"
        /\ Read8Calls(pre, arg).ok
        /\ Widened(dest) = Read8Calls(pre, arg).vals
        /\ Self = Read8Calls(pre, arg).st
        /\ buffer = <<>>
        /\ reader = SubSeq(pre.reader, arg + 1, Len(pre.reader))

\* an aligned read_bytes of the longest destination, after an earlier call
C6_Witness ==
    /\ op = "read_bytes" /\ arg = MaxBufLen /\ res.kind = "ok"
    /\ byte_aligned(pre) /\ Len(pre.reader) < MaxBytes
    /\ dest[1] # dest[2]

(* ---------------------------------------------------------------------- *)
(* C7                                                                      *)
(* ---------------------------------------------------------------------- *)
\* C7: skip(b) and read(b) with its result dropped cannot be told apart: they
\* succeed or fail together and leave the same bit buffer and the same source
\* position, on success and on failure.
C7_SkipIsReadDiscarded ==
    op = "skip" =>
        /\ (res.kind = "ok") = read(pre, arg).ok
        /\ (res.kind = "err") = ~read(pre, arg).ok
        /\ buffer = read(pre, arg).st.buffer
        /\ reader = read(pre, arg).st.reader

\* a successful skip of whole bytes from a byte-aligned state
C7_Witness ==
    /\ op = "skip" /\ arg = 16 /\ res.kind = "ok"
    /\ byte_aligned(pre) /\ byte_aligned(Self)

\* a failed skip that started with bits buffered
C7_WitnessFailed ==
    /\ op = "skip" /\ arg = 9 /\ res.kind = "err"
    /\ Len(pre.buffer) = 4 /\ Len(pre.reader) = 0

(* ---------------------------------------------------------------------- *)
(* C8                                                                      *)
(* ---------------------------------------------------------------------- *)
\* the stream of s holds a run of bits v ended by a stop bit
HasStop(s, v) == LeadingRun(StreamOf(s), v) < Remaining(s)

\* C8: when the stream holds k 1-bits and then a 0-bit, read_unary0() returns
\* k and consumes k+1 bits; when it holds k 0-bits and then a 1-bit,
\* read_unary1() returns k and consumes k+1 bits.
C8_UnaryCountsRun ==
    /\ (op = "read_unary0" /\ HasStop(pre, 1)) =>
          /\ res = Ok(LeadingRun(StreamOf(pre), 1))
          /\ StreamOf(Self) = Advance(StreamOf(pre), LeadingRun(StreamOf(pre), 1) + 1)
    /\ (op = "read_unary1" /\ HasStop(pre, 0)) =>
          /\ res = Ok(LeadingRun(StreamOf(pre), 0))
          /\ StreamOf(Self) = Advance(StreamOf(pre), LeadingRun(StreamOf(pre), 0) + 1)

\* a run of three 1-bits that starts in one byte and ends in the next
C8_Witness ==
    /\ op = "read_unary0" /\ res = Ok(3)
    /\ Len(pre.buffer) = 2 /\ Len(buffer) = 6

\* a run of three 0-bits that starts in one byte and ends in the next
C8_WitnessUnary1 ==
    /\ op = "read_unary1" /\ res = Ok(3)
    /\ Len(pre.buffer) = 2 /\ Len(buffer) = 6

(* ---------------------------------------------------------------------- *)
(* C9                                                                      *)
(* ---------------------------------------------------------------------- *)
\* C9: byte_align() empties the bit buffer and pulls no byte from the source;
\* byte_aligned() is true afterwards, a second byte_align() changes nothing,
\* and the next read(8) returns the first byte not yet pulled.
C9_ByteAlignDropsBufferOnly ==
    op = "byte_align" =>
        /\ buffer = <<>>
        /\ reader = pre.reader
        /\ byte_aligned(Self)
        /\ byte_align(Self) = Self
        /\ Len(pre.reader) > 0 =>
              /\ read(Self, 8).ok
              /\ read(Self, 8).val = U32(0, pre.reader[1])
              /\ read(Self, 8).st = [buffer |-> <<>>, reader |-> Tail(pre.reader)]

\* byte_align() with bits buffered and bytes left in the source
C9_Witness ==
    /\ op = "byte_align"
    /\ Len(pre.buffer) = 5 /\ Len(reader) > 1

(* ---------------------------------------------------------------------- *)
(* C10                                                                     *)
(* ---------------------------------------------------------------------- *)
\* C10: read_bytes called byte-aligned with a destination longer than what
\* the source holds returns the I/O error and has written no byte of the
\* destination.
C10_AlignedReadBytesNoPartialFill ==
    (op = "read_bytes" /\ byte_aligned(pre) /\ Len(pre.reader) < arg) =>
        /\ res = Err
        /\ Len(dest) = arg
        /\ \A i \in 1..arg : dest[i] = Unwritten

\* a failed aligned read_bytes that had a byte to offer but not enough
C10_Witness ==
    /\ op = "read_bytes" /\ res = Err
    /\ byte_aligned(pre) /\ Len(pre.reader) > 0 /\ Len(pre.reader) < arg

(* ---------------------------------------------------------------------- *)
(* C11                                                                     *)
(* ---------------------------------------------------------------------- *)
\* the eight bits of a byte, bit 7 first
BitsOfByte(byte) == [i \in 1..8 |-> BitOf(byte, i - 1)]

\* what next_bit does from s: with bits buffered it touches neither the
\* source nor adds to the buffer; with none it takes one byte and the buffer
\* becomes the bits 6..0 of that byte behind the returned bit 7; with none
\* and an exhausted source it fails and the buffer stays empty
C11_Refill(s) ==
    LET nb == next_bit(s)
    IN  IF Len(s.buffer) > 0
        THEN /\ nb.ok
             /\ nb.st.reader = s.reader
             /\ <<nb.val>> \o nb.st.buffer = s.buffer
        ELSE IF Len(s.reader) = 0
        THEN /\ ~nb.ok
             /\ nb.st.buffer = <<>>
             /\ nb.st.reader = s.reader
        ELSE /\ nb.ok
             /\ nb.st.reader = Tail(s.reader)
             /\ <<nb.val>> \o nb.st.buffer = BitsOfByte(s.reader[1])

\* C11: between public operations, failed ones included, the bit buffer holds
\* 0 to 7 entries, each 0 or 1; a refill happens only on an empty buffer and
\* adds the 8 bits of one fresh byte, bit 7 first; a failed fetch adds none.
C11_BufferInvariant ==
    /\ Len(buffer) \in 0..7
    /\ \A i \in 1..Len(buffer) : buffer[i] \in {0, 1}
    /\ C11_Refill(Self)
    /\ C11_Refill(pre)
    /\ Len(reader) = Len(pre.reader) => Len(buffer) <= Len(pre.buffer)
    /\ (op \in ReadOps /\ res.kind = "err") => Len(buffer) <= Len(pre.buffer)

\* a one-bit read that refilled the empty buffer and left seven bits
C11_Witness ==
    /\ op = "read" /\ arg = 1 /\ res.kind = "ok"
    /\ Len(pre.buffer) = 0 /\ Len(buffer) = 7 /\ Len(reader) + 1 = Len(pre.reader)

\* a failed call that started with bits buffered
C11_WitnessFailed ==
    /\ op = "read_unary0" /\ res = Err
    /\ Len(pre.buffer) = 2 /\ Len(buffer) = 0

(* ---------------------------------------------------------------------- *)
(* C12                                                                     *)
(* ---------------------------------------------------------------------- *)
\* the n least significant bits of byte, most significant of them first
TrailingBits(byte, n) == [i \in 1..n |-> (byte \div Pow2(n - i)) % 2]

\* C12: the reader never reads ahead: a non-empty buffer is the trailing
\* Len(buffer) bits of the byte most recently taken from the source, and while
\* every call since new() / byte_align() succeeded, the bytes taken since then
\* number the ceiling of (bits consumed since then) / 8, that is, 8 times the
\* bytes taken exceeds the bits consumed by 0 to 7.
C12_NoReadAhead ==
    /\ Len(buffer) > 0 =>
           /\ last # <<>>
           /\ buffer = TrailingBits(last[1], Len(buffer))
    /\ allOk => ahead \in 0..7

\* a skip(12) that began with three bits buffered and ended one bit into the
\* second byte it took, every call so far successful
C12_Witness ==
    /\ allOk /\ op = "skip" /\ arg = 12
    /\ Len(pre.buffer) = 3 /\ bitsSince = 1
    /\ ahead = 7 /\ Len(buffer) = 7 /\ last # <<>> /\ last[1] \in ByteVals

(* ---------------------------------------------------------------------- *)
(* C14                                                                     *)
(* ---------------------------------------------------------------------- *)
\* destination byte i (from 1) of an unaligned read_bytes from s with j bits
\* buffered, put together from the two source bytes it spans: the low j bits
\* of the earlier one (for i = 1 they are the buffered bits) above the high
\* 8 - j bits of byte i of the source
Straddle(s, i) ==
    LET j    == Len(s.buffer)
        low  == IF i = 1 THEN Digits(s.buffer, 1, j) ELSE s.reader[i - 1] % Pow2(j)
        high == s.reader[i] \div Pow2(j)
    IN  low * Pow2(8 - j) + high

\* C14: from a state with j buffered bits, 1 <= j <= 7, and at least n source
\* bytes left, read_bytes on a destination of length n succeeds, consumes
\* exactly 8n bits, writes byte i as the 8 stream bits from offset 8i of the
\* cursor (most significant first, spanning two source bytes), and leaves
\* exactly j bits buffered.
C14_ReadBytesUnaligned ==
    (op = "read_bytes" /\ Len(pre.buffer) \in 1..7 /\ Len(pre.reader) >= arg) =>
        /\ res.kind = "ok"
        /\ Len(dest) = arg
        /\ StreamOf(Self) = Advance(StreamOf(pre), 8 * arg)
        /\ Remaining(Self) = Remaining(pre) - 8 * arg
        /\ reader = SubSeq(pre.reader, arg + 1, Len(pre.reader))
        /\ \A i \in 1..arg :
               /\ dest[i] = Digits(StreamOf(pre), 8 * (i - 1) + 1, 8 * i)
               /\ dest[i] = Straddle(pre, i)
        /\ Len(buffer) = Len(pre.buffer)

\* an unaligned read_bytes of the longest destination that wrote two
\* different bytes
C14_Witness ==
    /\ op = "read_bytes" /\ arg = MaxBufLen /\ res.kind = "ok"
    /\ Len(pre.buffer) = 3 /\ Len(buffer) = 3
    /\ dest[1] # dest[2]

(* ---------------------------------------------------------------------- *)
(* C15                                                                     *)
(* ---------------------------------------------------------------------- *)
\* C15: after any operation that returned the I/O error the bit buffer is
\* empty; a failed read(b) that started with k < b bits available has used up
\* all k (nothing is left to deliver), its outcome is the error alone, and the
\* buffer is a well-formed one from which the next calls behave as from any
\* aligned state.
C15_FailureLeavesAligned ==
    Failed =>
        /\ buffer = <<>>
        /\ byte_aligned(Self)
        /\ res = Err
        /\ op = "read" =>
               /\ Remaining(pre) < arg
               /\ Remaining(Self) = 0
               /\ ~read(pre, arg).ok
               /\ read(pre, arg).st = Self
        /\ Len(buffer) \in 0..7
        /\ C11_Refill(Self)
        /\ byte_align(Self) = Self
        /\ \A w \in {1, 8} : read(Self, w).ok = (Len(reader) > 0)

\* a failed read(12) that started with 3 buffered bits and one source byte
C15_Witness ==
    /\ op = "read" /\ arg = 12 /\ res = Err
    /\ Len(pre.buffer) = 3 /\ Len(pre.reader) = 1
    /\ buffer = <<>> /\ reader = <<>>

(* ---------------------------------------------------------------------- *)
(* C16                                                                     *)
(* ---------------------------------------------------------------------- *)
\* x * 2^b + y as a u32, for x below 2^a and y below 2^b with a + b <= 32
Concat(x, y, b) ==
    IF b >= 16
    THEN U32(x.lo * Pow2(b - 16) + y.hi, y.lo)
    ELSE LET t == x.lo * Pow2(b) + y.lo
         IN  U32(x.hi * Pow2(b) + t \div Half, t % Half)

\* C16: reads compose: after a read(a) that returned x, for every b >= 1 with
\* a + b <= 32 and at least b bits left, read(b) returns some y and ends in
\* the state a single read(a + b) from the state before read(a) ends in, and
\* that single read returns x * 2^b + y.
C16_ReadsCompose ==
    (op = "read" /\ res.kind = "ok") =>
        \A b \in 1..(MaxBits - arg) :
            Remaining(Self) >= b =>
                \E y \in {read(Self, b)}, z \in {read(pre, arg + b)} :
                    /\ y.ok
                    /\ z.ok
                    /\ z.st = y.st
                    /\ z.val = Concat(res.val, y.val, b)

\* a read(12) that began inside a byte, returned a nonzero value and left at
\* least 15 bits, so that the reads compared with it span up to 27 bits
C16_Witness ==
    /\ op = "read" /\ arg = 12 /\ res.kind = "ok"
    /\ Len(pre.buffer) = 3 /\ Remaining(Self) >= 15
    /\ res.val.lo \notin {0, 4095}

(* ---------------------------------------------------------------------- *)
(* C13                                                                     *)
(* ---------------------------------------------------------------------- *)
\* the bit that read_unary0 / read_unary1 counts: the one that is not its stop bit
Counted(stop) == 1 - stop

\* a unary call is inside its loop: it has returned nothing, the acc bits it
\* has consumed are all counted bits
C13_InLoop ==
    frame.pc = "loop" =>
        /\ op = (IF frame.stop = 0 THEN "read_unary0" ELSE "read_unary1")
        /\ res = None
        /\ frame.acc + Remaining(Self) = Remaining(pre)
        /\ frame.acc <= LeadingRun(StreamOf(pre), Counted(frame.stop))

\* a unary call has returned: a count, with the run and its stop bit consumed,
\* exactly when the stream held a stop bit; otherwise the error, with the
\* source exhausted
C13_Returned ==
    (frame = NoFrame /\ op \in {"read_unary0", "read_unary1"}) =>
        LET run == LeadingRun(StreamOf(pre), Counted(IF op = "read_unary0" THEN 0 ELSE 1))
            whole == IF op = "read_unary0" THEN read_unary0(pre) ELSE read_unary1(pre)
        IN  /\ res.kind \in {"ok", "err"}
            /\ (res.kind = "ok") = (run < Remaining(pre))
            /\ res.kind = "ok" =>
                   /\ res.val = run
                   /\ Remaining(Self) = Remaining(pre) - run - 1
            /\ res.kind = "err" =>
                   /\ run = Remaining(pre)
                   /\ Remaining(Self) = 0
                   /\ reader = <<>>
            /\ res = (IF whole.ok THEN Ok(whole.val) ELSE Err)
            /\ Self = whole.st

\* C13: over a finite source, from any reachable state, a call of read_unary0
\* or read_unary1 that has started always returns: a count after consuming a
\* stop bit, or the I/O error once the source is exhausted with no stop bit
\* met; without a stop bit the error is the only way out.
C13_UnaryTerminates ==
    /\ [](C13_InLoop /\ C13_Returned)
    /\ (frame.pc = "loop") ~> (frame = NoFrame /\ res.kind \in {"ok", "err"})

\* read_unary1 returned the error after passing over more than a byte of 0 bits
C13_Witness ==
    /\ frame = NoFrame /\ op = "read_unary1" /\ res = Err
    /\ Len(pre.buffer) = 3 /\ Len(pre.reader) = 1

====
